---- MODULE Spec2Model ----
(***************************************************************************)
(* Grade reporting from Canvas (the LMS) to Ladok (the Registry).          *)
(*                                                                         *)
(* Specifications of this module:                                          *)
(*   SpecPrepare  prepare_ladok_change applied to one submission           *)
(*   Spec         do_report, run twice against the same LMS data           *)
(*   SpecGrade    a session of Ladok::get_grade calls                      *)
(*   SpecDecode   the deserializers of BetygsskalaID and BetygsgradID      *)
(*   SpecFetch    one call of Canvas::get_submissions against a paged      *)
(*                listing, or of Ladok::sok_studieresultat against any     *)
(*                Registry                                                 *)
(*   SpecSokLive  sok_studieresultat going on as long as it can            *)
(*                                                                         *)
(* Encodings.  Option<T>: None is <<>>, Some(v) is <<v>>.  Result<T,E>: a  *)
(* record with ok = TRUE and val, or ok = FALSE and err.  A String is a    *)
(* sequence of one-character strings.  A NaiveDate is a day number.  A     *)
(* DateTime<FixedOffset> is [day, hour, offset]: the UTC day and hour and  *)
(* the offset in hours.                                                    *)
(***************************************************************************)
EXTENDS Integers, Sequences, FiniteSets, TLC

VARIABLES
    p_in, p_out,                      \* SpecPrepare: arguments, result
    canvas, ladok_db,                 \* the LMS data and the Registry data
    pass, pc, kurstillf, ai, si,      \* do_report: position
    resultat, create_queue, update_queue, retval,
    betygskalor_cache,                \* Ladok.betygskalor_cache
    sent,                             \* requests sent to the Registry
    classified,                       \* what each classification did
    searches,                         \* the sok_studieresultat calls made
    net, ncalls, last_call,           \* SpecGrade: fetch log, call count
    d_in, d_out,                      \* SpecDecode: wire value, BetygsskalaID
    g_out,                            \* SpecDecode: the BetygsgradID decoded
    pages, next_url, result,          \* get_submissions: Canvas, the locals
    requests, s_ret,                  \* get_submissions: requests made, return
    sok_data, sok_resultat, sok_pc,   \* sok_studieresultat: locals, position
    sok_req, sok_answer, sok_ret      \* sok_studieresultat: last request,
                                      \* its answer, the return value

vars == <<p_in, p_out, canvas, ladok_db, pass, pc, kurstillf, ai, si,
          resultat, create_queue, update_queue, retval, betygskalor_cache,
          sent, classified, searches, net, ncalls, last_call, d_in, d_out, g_out,
          pages, next_url, result, requests, s_ret,
          sok_data, sok_resultat, sok_pc, sok_req, sok_answer, sok_ret>>

submissionsVars == <<pages, next_url, result, requests, s_ret>>
sokVars == <<sok_data, sok_resultat, sok_pc, sok_req, sok_answer, sok_ret>>
notFetchVars == <<p_in, p_out, canvas, ladok_db, pass, pc, kurstillf, ai, si,
                  resultat, create_queue, update_queue, retval, betygskalor_cache,
                  sent, classified, searches, net, ncalls, last_call, d_in, d_out, g_out>>

-----------------------------------------------------------------------------
(* Bounds *)

MaxLen == 2      \* longest grade string / digit string drawn
MaxDay == 2      \* graded-at days are 1..MaxDay
NumUsers == 2    \* Canvas users of the course room
MaxCalls == 4    \* get_grade calls in one SpecGrade session
MaxNum == 12     \* largest JSON number drawn
MaxPages == 3    \* pages of the submissions listing of Canvas
PageWidth == 2   \* bits of data.Page in sok_studieresultat
MaxTotal == 3    \* largest TotaltAntalPoster the Registry reports

-----------------------------------------------------------------------------
(* Option and Result *)

None == <<>>
Some(v) == <<v>>
IsSome(o) == o # <<>>
Unwrap(o) == o[1]

Ok(v) == [ok |-> TRUE, val |-> v]
Err(e) == [ok |-> FALSE, err |-> e]

RECURSIVE SeqsUpTo(_, _)
SeqsUpTo(S, n) ==
    IF n = 0 THEN {<<>>}
    ELSE LET shorter == SeqsUpTo(S, n - 1)
         IN  shorter \cup {Append(s, c) : s \in shorter, c \in S}

\* index of the first element of seq satisfying P, 0 when there is none
FirstIndex(seq, P(_)) ==
    IF \E i \in 1..Len(seq) : P(seq[i])
    THEN CHOOSE i \in 1..Len(seq) : P(seq[i]) /\ \A j \in 1..(i - 1) : ~P(seq[j])
    ELSE 0

-----------------------------------------------------------------------------
(* Strings and dates *)

\* the grade string passed on as it was submitted
to_uppercase_skipped(s) == s

\* char::to_uppercase on the letters the model uses
ToUpperChar(c) ==
    CASE c = "a" -> "A"
      [] c = "b" -> "B"
      [] c = "z" -> "Z"
      [] OTHER -> c

to_uppercase(s) == [i \in 1..Len(s) |-> ToUpperChar(s[i])]

\* DateTime<FixedOffset>::naive_local().date(): the calendar day at the
\* timestamp's own offset
NaiveLocalDate(t) ==
    IF t.hour + t.offset >= 24 THEN t.day + 1
    ELSE IF t.hour + t.offset < 0 THEN t.day - 1
    ELSE t.day

-----------------------------------------------------------------------------
(* ladok/types.rs *)

\* Betygskala::get: the first grade whose code is exactly kod
BetygskalaGet(skala, kod) ==
    LET i == FirstIndex(skala.Betygsgrad, LAMBDA b : b.Kod = kod)
    IN  IF i = 0 THEN None ELSE Some(skala.Betygsgrad[i])

\* SokresultatStudieresultatResultat::find_student
find_student(res, uid) ==
    LET i == FirstIndex(res.Resultat,
                        LAMBDA r : IF IsSome(r.Student)
                                   THEN Unwrap(r.Student).Uid = uid
                                   ELSE FALSE)
    IN  IF i = 0 THEN None ELSE Some(res.Resultat[i])

\* the first draft of the result, whatever its moment
get_arbetsunderlag_any_moment(one, moment) ==
    LET i == FirstIndex(one.ResultatPaUtbildningar,
                        LAMBDA rpu : IsSome(rpu.Arbetsunderlag))
    IN  IF i = 0 THEN None ELSE one.ResultatPaUtbildningar[i].Arbetsunderlag

\* Studieresultat::get_arbetsunderlag
get_arbetsunderlag(one, moment) ==
    LET i == FirstIndex(one.ResultatPaUtbildningar,
                        LAMBDA rpu : IF IsSome(rpu.Arbetsunderlag)
                                     THEN Unwrap(rpu.Arbetsunderlag).UtbildningsinstansUID
                                              = Some(moment)
                                     ELSE FALSE)
    IN  IF i = 0 THEN None ELSE one.ResultatPaUtbildningar[i].Arbetsunderlag

\* Studieresultat::get_betygsskala
get_betygsskala(one) ==
    IF IsSome(one.Rapporteringskontext)
    THEN Unwrap(one.Rapporteringskontext).BetygsskalaID
    ELSE None

-----------------------------------------------------------------------------
(* ladok/types.rs: the deserializer of BetygsskalaID.  A JSON value is a  *)
(* record with its shape and, by shape, the field num, str or bool:        *)
(* serde_json hands a non-negative integer to visit_u64, a negative one to *)
(* visit_i64, a string to visit_str, true and false to visit_bool, null to *)
(* visit_unit.  The numbers drawn stay below 2^31, so the conversions to   *)
(* u32 never overflow.                                                     *)

Digits == <<"0", "1", "2", "3", "4", "5", "6", "7", "8", "9">>
IsDigit(c) == \E i \in 1..Len(Digits) : Digits[i] = c
DigitValue(c) == (CHOOSE i \in 1..Len(Digits) : Digits[i] = c) - 1

\* u32::from_str: an optional plus sign, then one or more decimal digits
RECURSIVE ParseDigits(_, _)
ParseDigits(s, acc) ==
    IF s = <<>> THEN Ok(acc)
    ELSE IF IsDigit(Head(s)) THEN ParseDigits(Tail(s), acc * 10 + DigitValue(Head(s)))
    ELSE Err("invalid digit")

parse(val) ==
    IF val = <<>> THEN Err("empty")
    ELSE IF Head(val) = "+" \/ Head(val) = "-"
    THEN IF Tail(val) = <<>> \/ Head(val) = "-" THEN Err("invalid digit")
         ELSE ParseDigits(Tail(val), 0)
    ELSE ParseDigits(val, 0)

\* visit_u32 taking zero for an identifier
visit_u32_zero_allowed(val) == Ok(val)

\* MyVisitor::visit_u32: NonZeroU32::new
visit_u32(val) ==
    IF val # 0 THEN Ok(val) ELSE Err("invalid integer value")

\* MyVisitor::visit_u64
visit_u64(val) == visit_u32(val)

\* MyVisitor::visit_str
visit_str(val) ==
    IF parse(val).ok THEN visit_u32(parse(val).val)
    ELSE Err("failed to parse integer")

\* BetygsskalaID::deserialize: deserialize_any with MyVisitor, whose other
\* visit methods are the default ones, which fail
deserialize(json) ==
    IF json.shape = "u64" THEN visit_u64(json.num)
    ELSE IF json.shape = "str" THEN visit_str(json.str)
    ELSE Err("invalid type: expected integer or string")

\* BetygsgradID::deserialize, derived for a newtype struct over NonZeroU32:
\* the value itself goes to NonZeroU32::deserialize, which asks the format
\* for a u32.  serde_json's deserialize_u32 parses a JSON number and fails
\* with an invalid type on any other value, a string included; a negative
\* number is an invalid value for the u32 visitor and zero is refused by
\* NonZeroU32.
BetygsgradID_deserialize(json) ==
    IF json.shape = "u64"
    THEN IF json.num # 0 THEN Ok(json.num) ELSE Err("expected a non-zero value")
    ELSE IF json.shape = "i64" THEN Err("invalid value: expected u32")
    ELSE Err("invalid type: expected u32")

-----------------------------------------------------------------------------
(* ladok/mod.rs: the grade-scale cache *)

\* get_grade without the look into the cache
get_grade_always_fetching(cache, betygskala, grade, response) ==
    IF response.ok
    THEN LET c2 == [k \in DOMAIN cache \cup {betygskala} |->
                        IF k = betygskala THEN response.val ELSE cache[k]]
             g == BetygskalaGet(c2[betygskala], grade)
         IN  [cache |-> c2, fetched |-> TRUE,
              res |-> IF IsSome(g) THEN Ok(Unwrap(g)) ELSE Err("Grade not in scale")]
    ELSE [cache |-> cache, fetched |-> TRUE, res |-> Err("fetch failed")]

\* Ladok::get_grade.  cache is betygskalor_cache; response is what
\* get_betygskala returns if it is called (Ok(scale) or Err).  The result
\* holds the cache afterwards and whether the network was used.
get_grade(cache, betygskala, grade, response) ==
    IF betygskala \in DOMAIN cache
    THEN LET g == BetygskalaGet(cache[betygskala], grade)
         IN  [cache |-> cache, fetched |-> FALSE,
              res |-> IF IsSome(g) THEN Ok(Unwrap(g)) ELSE Err("Grade not in scale")]
    ELSE IF response.ok
    THEN LET c2 == [k \in DOMAIN cache \cup {betygskala} |->
                        IF k = betygskala THEN response.val ELSE cache[k]]
             g == BetygskalaGet(c2[betygskala], grade)
         IN  [cache |-> c2, fetched |-> TRUE,
              res |-> IF IsSome(g) THEN Ok(Unwrap(g)) ELSE Err("Grade not in scale")]
    ELSE [cache |-> cache, fetched |-> TRUE, res |-> Err("fetch failed")]

-----------------------------------------------------------------------------
(* main.rs: prepare_ladok_change *)

\* the draft compared on the grade alone
needs_update_grade_only(underlag, g, exam_date) ==
    underlag.Betygsgrad # Some(g.ID)

\* the comparison of the draft with the resolved grade and date
needs_update(underlag, g, exam_date) ==
    \/ underlag.Betygsgrad # Some(g.ID)
    \/ underlag.Examinationsdatum # Some(exam_date)

\* the Update payload naming the result container instead of the draft and
\* carrying no timestamp
UppdateraResultat_without_draft(one, underlag, g, betygskala, exam_date) ==
    [Uid |-> one.Uid,
     Betygsgrad |-> Some(g.ID),
     BetygsskalaID |-> betygskala,
     Examinationsdatum |-> Some(exam_date),
     ResultatUID |-> one.Uid,
     SenasteResultatandring |-> None]

\* the payload of ChangeToLadok::Update
UppdateraResultat(one, underlag, g, betygskala, exam_date) ==
    [Uid |-> one.Uid,
     Betygsgrad |-> Some(g.ID),
     BetygsskalaID |-> betygskala,
     Examinationsdatum |-> Some(exam_date),
     ResultatUID |-> underlag.Uid,
     SenasteResultatandring |-> underlag.SenasteResultatandring]

\* the Create payload without the moment it is for
SkapaResultat_without_moment(one, g, betygskala, exam_date, moment_id) ==
    [Uid |-> one.Uid,
     Betygsgrad |-> Some(g.ID),
     BetygsskalaID |-> betygskala,
     Examinationsdatum |-> Some(exam_date),
     StudieresultatUID |-> one.Uid,
     UtbildningsinstansUID |-> None]

\* the payload of ChangeToLadok::Create
SkapaResultat(one, g, betygskala, exam_date, moment_id) ==
    [Uid |-> one.Uid,
     Betygsgrad |-> Some(g.ID),
     BetygsskalaID |-> betygskala,
     Examinationsdatum |-> Some(exam_date),
     StudieresultatUID |-> one.Uid,
     UtbildningsinstansUID |-> Some(moment_id)]

ResultOf(cache, lookups, res) == [cache |-> cache, lookups |-> lookups, res |-> res]

\* ladok is the cache of the Ladok client, responses what the Registry
\* answers to get_betygskala for each scale id.  The result holds the
\* Result<ChangeToLadok, Error>, the cache afterwards and the lookups made,
\* in order.
prepare_ladok_change(cache, student, res, moment_id, submission, responses) ==
    IF ~IsSome(submission.grade)
    THEN ResultOf(cache, <<>>, Ok([kind |-> "NoGrade"]))
    ELSE
    LET grade == to_uppercase(Unwrap(submission.grade))
        found == find_student(res, student)
    IN
    IF ~IsSome(found)
    THEN ResultOf(cache, <<"find_student">>, Err("Student not in Ladok result-list"))
    ELSE
    LET one == Unwrap(found)
        skala == get_betygsskala(one)
    IN
    IF ~IsSome(skala)
    THEN ResultOf(cache, <<"find_student", "get_betygsskala">>, Err("Missing Betygskala"))
    ELSE
    LET betygskala == Unwrap(skala)
        got == get_grade(cache, betygskala, grade, responses[betygskala])
        looked == <<"find_student", "get_betygsskala", "get_grade">>
    IN
    IF ~got.res.ok
    THEN ResultOf(got.cache, looked, got.res)
    ELSE IF ~IsSome(submission.graded_at)
    THEN ResultOf(got.cache, looked, Err("Submission missing graded_at"))
    ELSE
    LET g == got.res.val
        exam_date == NaiveLocalDate(Unwrap(submission.graded_at))
        au == get_arbetsunderlag(one, moment_id)
        all == Append(looked, "get_arbetsunderlag")
    IN
    IF IsSome(au)
    THEN LET underlag == Unwrap(au)
         IN  IF needs_update(underlag, g, exam_date)
             THEN ResultOf(got.cache, all,
                      Ok([kind |-> "Update",
                          data |-> UppdateraResultat(one, underlag, g, betygskala, exam_date),
                          grade |-> g.Kod]))
             ELSE ResultOf(got.cache, all, Ok([kind |-> "NoChange", grade |-> g.Kod]))
    ELSE ResultOf(got.cache, all,
             Ok([kind |-> "Create",
                 data |-> SkapaResultat(one, g, betygskala, exam_date, moment_id),
                 grade |-> g.Kod]))

-----------------------------------------------------------------------------
(* The Registry's grade scales and the records the inputs are drawn from *)

Grade(id, kod) == [ID |-> id, Kod |-> kod, GiltigSomSlutbetyg |-> TRUE]

ScaleIds == {1, 2}

\* scale 2 stores one of its codes in lower case
Betygskalor ==
    [id \in ScaleIds |->
        IF id = 1
        THEN [ID |-> 1, Kod |-> "AF",
              Betygsgrad |-> <<Grade(1, <<"A">>), Grade(2, <<"B">>)>>]
        ELSE [ID |-> 2, Kod |-> "XY",
              Betygsgrad |-> <<Grade(5, <<"B">>), Grade(6, <<"a", "b">>)>>]]

\* the Registry answers every get_betygskala, or none
Responses(up) ==
    [id \in ScaleIds |-> IF up THEN Ok(Betygskalor[id]) ELSE Err("fetch failed")]

GradeAlphabet == {"a", "A", "b"}
GradeInputs == {None} \cup {Some(s) : s \in SeqsUpTo(GradeAlphabet, MaxLen)}

Days == 1..MaxDay
GradedAtInputs ==
    {None} \cup {Some(t) : t \in [day : Days, hour : {0, 23}, offset : {-1, 0, 1}]}

Submission(assignment, user, grade, graded_at) ==
    [assignment_id |-> assignment, user_id |-> user,
     grade |-> grade, graded_at |-> graded_at]

Draft(uid, grade, date, changed, moment) ==
    [Uid |-> uid, Betygsgrad |-> grade, Examinationsdatum |-> date,
     SenasteResultatandring |-> changed, UtbildningsinstansUID |-> moment]

Rpu(au) == [Arbetsunderlag |-> au]

Studieresultat(uid, student, rk, rpus) ==
    [Uid |-> uid, Student |-> student, Rapporteringskontext |-> rk,
     ResultatPaUtbildningar |-> rpus]

Kontext(skala) == Some([BetygsskalaID |-> skala])

\* drafts of moment M1, every combination of present and absent fields
DraftInputs ==
    {Draft(it[1], g, d, it[2], Some("M1")) :
        it \in {<<None, None>>, <<Some("u1"), Some(7)>>},
        g \in {None, Some(1), Some(2)},
        d \in {None} \cup {Some(n) : n \in 1..(MaxDay + 1)}}

OtherDraft == Draft(Some("u2"), Some(2), Some(1), Some(3), Some("M2"))

RpuInputs ==
    {<<>>, <<Rpu(None)>>, <<Rpu(Some(OtherDraft))>>}
        \cup {<<Rpu(Some(d))>> : d \in DraftInputs}
        \cup {<<Rpu(Some(OtherDraft)), Rpu(Some(d))>> : d \in DraftInputs}

Decoy == Studieresultat(Some("r2"), Some([Uid |-> "s2"]), Kontext(Some(2)), <<>>)

\* every draft shape under a usable Rapporteringskontext; a missing context,
\* a missing scale, the other scale and a missing result Uid with no draft
\* and with one draft
FewRpuInputs ==
    {<<>>, <<Rpu(Some(Draft(Some("u1"), Some(1), Some(1), Some(7), Some("M1"))))>>}

TargetInputs ==
    {Studieresultat(Some("r1"), Some([Uid |-> "s1"]), Kontext(Some(1)), rpus) :
        rpus \in RpuInputs}
    \cup {Studieresultat(Some("r1"), Some([Uid |-> "s1"]), rk, rpus) :
        rk \in {None, Kontext(None), Kontext(Some(2))},
        rpus \in FewRpuInputs}
    \cup {Studieresultat(None, Some([Uid |-> "s1"]), Kontext(Some(1)), rpus) :
        rpus \in FewRpuInputs}

Sokresultat(list) == [Resultat |-> list, TotaltAntalPoster |-> Len(list)]

ResultatInputs ==
    {Sokresultat(<<>>), Sokresultat(<<Decoy>>)}
        \cup {Sokresultat(<<Decoy, t>>) : t \in TargetInputs}

EmptyCache == [id \in {} |-> None]

\* the session before the call: nothing cached and the Registry up or
\* down, or both scales cached
SessionInputs ==
    {[cache |-> EmptyCache, responses |-> Responses(TRUE)],
     [cache |-> EmptyCache, responses |-> Responses(FALSE)],
     [cache |-> Betygskalor, responses |-> Responses(FALSE)]}

-----------------------------------------------------------------------------
(* The variables of the other specifications, at rest *)

IdlePrepare == p_in = None /\ p_out = None

IdleReport ==
    /\ canvas = None /\ ladok_db = None /\ pass = 0 /\ pc = "idle"
    /\ kurstillf = None /\ ai = 0 /\ si = 0 /\ resultat = None
    /\ create_queue = <<>> /\ update_queue = <<>> /\ retval = None
    /\ sent = <<>> /\ classified = <<>> /\ searches = <<>>

IdleGrade == net = <<>> /\ ncalls = 0 /\ last_call = None

IdleDecode == d_in = None /\ d_out = None /\ g_out = None

IdleSubmissions ==
    /\ pages = <<>> /\ next_url = None /\ result = <<>>
    /\ requests = <<>> /\ s_ret = None

IdleSok ==
    /\ sok_data = None /\ sok_resultat = None /\ sok_pc = "idle"
    /\ sok_req = None /\ sok_answer = None /\ sok_ret = None

-----------------------------------------------------------------------------
(* SpecPrepare: prepare_ladok_change on one submission of student s1 for   *)
(* moment M1                                                               *)

InitPrepare ==
    /\ p_in \in {Some([student |-> "s1", resultat |-> r, moment_id |-> "M1",
                        submission |-> Submission(Some(1), Some(1), g, t),
                        cache |-> ss.cache, responses |-> ss.responses]) :
                    r \in ResultatInputs, g \in GradeInputs,
                    t \in GradedAtInputs, ss \in SessionInputs}
    /\ p_out = None
    /\ betygskalor_cache = Unwrap(p_in).cache
    /\ IdleReport /\ IdleGrade /\ IdleDecode /\ IdleSubmissions /\ IdleSok

Prepare ==
    /\ p_out = None
    /\ LET in == Unwrap(p_in)
           r == prepare_ladok_change(betygskalor_cache, in.student, in.resultat,
                                     in.moment_id, in.submission, in.responses)
       IN  /\ p_out' = Some(r)
           /\ betygskalor_cache' = r.cache
    /\ UNCHANGED <<p_in, canvas, ladok_db, pass, pc, kurstillf, ai, si, resultat,
                   create_queue, update_queue, retval, sent, classified, searches,
                   net, ncalls, last_call, d_in, d_out, g_out>>
    /\ UNCHANGED <<submissionsVars, sokVars>>

NextPrepare == Prepare

SpecPrepare == InitPrepare /\ [][NextPrepare]_vars

-----------------------------------------------------------------------------
(* What the claims about prepare_ladok_change speak of, read off the       *)
(* arguments of the call                                                   *)

PIn == Unwrap(p_in)
POut == Unwrap(p_out)
PDone == p_out # None

\* the student's result container, when the result set holds one
POne == find_student(PIn.resultat, PIn.student)
PSkala == IF IsSome(POne) THEN get_betygsskala(Unwrap(POne)) ELSE None

\* the scale the session resolves against: the cached one, else the fetched
PScale ==
    IF ~IsSome(PSkala) THEN None
    ELSE IF Unwrap(PSkala) \in DOMAIN PIn.cache THEN Some(PIn.cache[Unwrap(PSkala)])
    ELSE IF PIn.responses[Unwrap(PSkala)].ok
         THEN Some(PIn.responses[Unwrap(PSkala)].val)
         ELSE None

UpperCased(s) ==
    [i \in 1..Len(s) |->
        IF s[i] = "a" THEN "A" ELSE IF s[i] = "b" THEN "B"
        ELSE IF s[i] = "z" THEN "Z" ELSE s[i]]

\* the grades of the scale whose code is the upper-cased submitted grade
PGrades ==
    IF IsSome(PScale) /\ IsSome(PIn.submission.grade)
    THEN {Unwrap(PScale).Betygsgrad[i] : i \in
             {j \in 1..Len(Unwrap(PScale).Betygsgrad) :
                 Unwrap(PScale).Betygsgrad[j].Kod
                     = UpperCased(Unwrap(PIn.submission.grade))}}
    ELSE {}

\* steps 1-5 of the classification succeeded
PResolved ==
    /\ IsSome(PIn.submission.grade)
    /\ IsSome(POne)
    /\ IsSome(PSkala)
    /\ PGrades # {}
    /\ IsSome(PIn.submission.graded_at)

PGradeId == (CHOOSE g \in PGrades : TRUE).ID
PExamDate == NaiveLocalDate(Unwrap(PIn.submission.graded_at))

\* the drafts of the student's result for the moment
PDrafts ==
    IF IsSome(POne)
    THEN {Unwrap(rpu.Arbetsunderlag) : rpu \in
             {Unwrap(POne).ResultatPaUtbildningar[i] :
                 i \in {j \in 1..Len(Unwrap(POne).ResultatPaUtbildningar) :
                    /\ IsSome(Unwrap(POne).ResultatPaUtbildningar[j].Arbetsunderlag)
                    /\ Unwrap(Unwrap(POne).ResultatPaUtbildningar[j].Arbetsunderlag)
                           .UtbildningsinstansUID = Some(PIn.moment_id)}}}
    ELSE {}

PDraft == CHOOSE d \in PDrafts : TRUE

\* C2: with a draft for the moment and steps 1-5 passed, the outcome is
\* NoChange exactly when the draft's grade-code id and exam date both equal
\* the resolved ones, and otherwise Update carrying the resolved grade-code
\* id, the scale id and the resolved exam date.
C2_DraftComparedOnGradeAndDate ==
    (PDone /\ PResolved /\ PDrafts # {}) =>
        /\ POut.res.ok
        /\ IF /\ PDraft.Betygsgrad = Some(PGradeId)
              /\ PDraft.Examinationsdatum = Some(PExamDate)
           THEN POut.res.val.kind = "NoChange"
           ELSE /\ POut.res.val.kind = "Update"
                /\ POut.res.val.data.Betygsgrad = Some(PGradeId)
                /\ POut.res.val.data.BetygsskalaID = Unwrap(PSkala)
                /\ POut.res.val.data.Examinationsdatum = Some(PExamDate)

\* an Update for a draft with the same grade and another date
C2_Witness ==
    /\ PDone /\ PResolved /\ PDrafts # {}
    /\ PDraft.Betygsgrad = Some(PGradeId)
    /\ IsSome(PDraft.Examinationsdatum)
    /\ PDraft.Examinationsdatum # Some(PExamDate)
    /\ POut.res.ok /\ POut.res.val.kind = "Update"

\* C16: the payload of an Update holds, as ResultatUID and as
\* SenasteResultatandring, the Uid and the SenasteResultatandring of the
\* draft of the moment as the result set given to the call holds them, an
\* absent one staying absent.
C16_UpdateCarriesDraftIdAndStamp ==
    (PDone /\ POut.res.ok /\ POut.res.val.kind = "Update") =>
        /\ PDrafts # {}
        /\ POut.res.val.data.ResultatUID = PDraft.Uid
        /\ POut.res.val.data.SenasteResultatandring = PDraft.SenasteResultatandring

\* an Update of a draft with neither Uid nor SenasteResultatandring, listed
\* after a draft of another moment that has both
C16_Witness ==
    /\ PDone /\ POut.res.ok /\ POut.res.val.kind = "Update"
    /\ PDrafts # {}
    /\ PDraft.Uid = None /\ PDraft.SenasteResultatandring = None
    /\ Len(Unwrap(POne).ResultatPaUtbildningar) = 2
    /\ Unwrap(POne).ResultatPaUtbildningar[1] = Rpu(Some(OtherDraft))
    /\ POut.res.val.data.ResultatUID = None
    /\ POut.res.val.data.SenasteResultatandring = None

\* C3: with no draft for the moment and steps 1-5 passed, the outcome is
\* Create, and its payload holds the resolved grade-code id, the scale id of
\* the student's result, the exam date derived from graded-at, the moment
\* id and, as back-reference, the identifier of the student's result.
C3_CreateWithoutDraft ==
    (PDone /\ PResolved /\ PDrafts = {}) =>
        /\ POut.res.ok
        /\ POut.res.val.kind = "Create"
        /\ POut.res.val.data.Betygsgrad = Some(PGradeId)
        /\ POut.res.val.data.BetygsskalaID = Unwrap(PSkala)
        /\ POut.res.val.data.Examinationsdatum = Some(PExamDate)
        /\ POut.res.val.data.UtbildningsinstansUID = Some(PIn.moment_id)
        /\ POut.res.val.data.StudieresultatUID = Unwrap(POne).Uid

\* a Create for a student whose result holds a draft of another moment only
C3_Witness ==
    /\ PDone /\ PResolved /\ PDrafts = {}
    /\ Unwrap(POne).ResultatPaUtbildningar = <<Rpu(Some(OtherDraft))>>
    /\ IsSome(Unwrap(POne).Uid)
    /\ POut.res.ok /\ POut.res.val.kind = "Create"

\* the same call with the submitted grade upper-cased beforehand
PUpperCall ==
    prepare_ladok_change(PIn.cache, PIn.student, PIn.resultat, PIn.moment_id,
        [PIn.submission EXCEPT !.grade = Some(UpperCased(Unwrap(PIn.submission.grade)))],
        PIn.responses)

\* C9: a submitted grade and its upper-cased form resolve alike (the same
\* grade code or the same failure), and a grade whose upper-cased form is
\* no code of the scale fails with the unknown-grade error.
C9_GradeCaseInsensitive ==
    (PDone /\ IsSome(PIn.submission.grade)) =>
        /\ POut.res = PUpperCall.res
        /\ (IsSome(PScale) /\ PGrades = {}) =>
               POut.res = Err("Grade not in scale")

\* "a" resolved to the grade code of "A"
C9_Witness ==
    /\ PDone /\ PResolved
    /\ PIn.submission.grade = Some(<<"a">>)
    /\ POut.res.ok /\ POut.res.val.grade = <<"A">>

-----------------------------------------------------------------------------
(* Spec: do_report.  The course room has three assignments, the second     *)
(* without integration id, and NumUsers users.                             *)

Users == 1..NumUsers

Assignments ==
    <<[id |-> 1, integration_id |-> Some("M1")],
      [id |-> 2, integration_id |-> None],
      [id |-> 3, integration_id |-> Some("M2")]>>

Participating == {i \in 1..Len(Assignments) : IsSome(Assignments[i].integration_id)}

UserUid(u) == <<"s", u>>
ResultUid(u) == <<"r", u>>

GradedAt == Some([day |-> 1, hour |-> 0, offset |-> 0])

\* what a user submitted for a participating assignment: no grade, a grade
\* of the scale in lower case, a grade of no scale
SubmissionKinds == {None, Some(<<"a">>), Some(<<"z">>)}

\* a user: no ladok_uid in Canvas, no result in the Registry, a result
\* without draft, a result with a draft of M1 graded A or B on day 1
Profiles == {"nouid", "absent", "new", "draftA", "draftB"}

\* a user of the course room: the profile and the grades submitted for the
\* first and the second participating assignment
UserCases ==
    {[profile |-> p, grades |-> <<k, Some(<<"a">>)>>] :
        p \in Profiles, k \in SubmissionKinds}
    \cup {[profile |-> p, grades |-> <<Some(<<"a">>), None>>] :
        p \in {"new", "draftB"}}

\* get_submissions: a submission without user, then per user one
\* submission for each assignment
SubmissionsOf(cases) ==
    [i \in 1..(1 + 3 * NumUsers) |->
        IF i = 1 THEN Submission(Some(1), None, Some(<<"a">>), GradedAt)
        ELSE LET u == ((i - 2) \div 3) + 1
                 a == ((i - 2) % 3) + 1
             IN  Submission(Some(a), Some(u),
                            IF a = 1 THEN cases[u].grades[1]
                            ELSE IF a = 3 THEN cases[u].grades[2]
                            ELSE Some(<<"a">>),
                            GradedAt)]

ProfileResult(u, profile) ==
    Studieresultat(Some(ResultUid(u)), Some([Uid |-> UserUid(u)]), Kontext(Some(1)),
        IF profile = "draftA"
        THEN <<Rpu(Some(Draft(Some(<<"u", u>>), Some(1), Some(1), Some(7), Some("M1"))))>>
        ELSE IF profile = "draftB"
        THEN <<Rpu(Some(Draft(Some(<<"u", u>>), Some(2), Some(1), Some(7), Some("M1"))))>>
        ELSE <<>>)

RECURSIVE RegistryOf(_, _)
RegistryOf(cases, n) ==
    IF n = 0 THEN <<>>
    ELSE IF cases[n].profile = "absent" THEN RegistryOf(cases, n - 1)
    ELSE Append(RegistryOf(cases, n - 1), ProfileResult(n, cases[n].profile))

InitReport ==
    /\ \E cases \in [Users -> UserCases] :
          /\ canvas = [assignments |-> Assignments,
                       submissions |-> SubmissionsOf(cases),
                       uid_of |-> [u \in Users |->
                                      IF cases[u].profile = "nouid"
                                      THEN Err("no ladok_uid")
                                      ELSE Ok(UserUid(u))]]
          /\ ladok_db = RegistryOf(cases, NumUsers)
    /\ pass = 1 /\ pc = "start"
    /\ kurstillf = None /\ ai = 0 /\ si = 0 /\ resultat = None
    /\ create_queue = <<>> /\ update_queue = <<>> /\ retval = None
    /\ betygskalor_cache = EmptyCache
    /\ sent = <<>> /\ classified = <<>> /\ searches = <<>>
    /\ IdlePrepare /\ IdleGrade /\ IdleDecode /\ IdleSubmissions /\ IdleSok

NotReport == <<p_in, p_out, net, ncalls, last_call, d_in, d_out, g_out,
               submissionsVars, sokVars>>

\* ExportResults::new
NewExportResults ==
    [students |-> [u \in {} |-> <<>>], created |-> Ok(0), updated |-> Ok(0)]

\* ExportResults::add with the status taking the place of the student's line
add_overwriting(r, student, status) ==
    [r EXCEPT !.students =
        [u \in DOMAIN r.students \cup {student} |->
            IF u = student THEN <<status>> ELSE r.students[u]]]

\* ExportResults::add: the status is appended to the student's line
add(r, student, status) ==
    [r EXCEPT !.students =
        [u \in DOMAIN r.students \cup {student} |->
            IF u \in DOMAIN r.students
            THEN IF u = student THEN Append(r.students[u], status) ELSE r.students[u]
            ELSE <<status>>]]

\* the next assignment with an integration id after position i, 0 if none
NextAssignment(i) ==
    IF \E j \in (i + 1)..Len(canvas.assignments) :
           IsSome(canvas.assignments[j].integration_id)
    THEN CHOOSE j \in (i + 1)..Len(canvas.assignments) :
           /\ IsSome(canvas.assignments[j].integration_id)
           /\ \A k \in (i + 1)..(j - 1) : ~IsSome(canvas.assignments[k].integration_id)
    ELSE 0

\* the loop over the submissions left after its first turn
NextSubmission_once(a, i) ==
    IF i = 0 /\ \E j \in 1..Len(canvas.submissions) :
                   canvas.submissions[j].assignment_id = Some(canvas.assignments[a].id)
    THEN CHOOSE j \in 1..Len(canvas.submissions) :
           /\ canvas.submissions[j].assignment_id = Some(canvas.assignments[a].id)
           /\ \A k \in 1..(j - 1) :
                  canvas.submissions[k].assignment_id # Some(canvas.assignments[a].id)
    ELSE 0

\* the next submission of the assignment at position a after position i
NextSubmission(a, i) ==
    IF \E j \in (i + 1)..Len(canvas.submissions) :
           canvas.submissions[j].assignment_id = Some(canvas.assignments[a].id)
    THEN CHOOSE j \in (i + 1)..Len(canvas.submissions) :
           /\ canvas.submissions[j].assignment_id = Some(canvas.assignments[a].id)
           /\ \A k \in (i + 1)..(j - 1) :
                  canvas.submissions[k].assignment_id # Some(canvas.assignments[a].id)
    ELSE 0

moment_id == Unwrap(canvas.assignments[ai].integration_id)

\* get_course, the integration id, get_submissions, ExportResults::new,
\* get_assignments: any of the three requests may fail, and the room may
\* lack the integration id
Start ==
    /\ pc = "start"
    /\ \E answer \in {Err("request failed"), Ok(None), Ok(Some("K1"))} :
          IF answer.ok /\ IsSome(answer.val)
          THEN /\ kurstillf' = answer.val
               /\ retval' = NewExportResults
               /\ pc' = "sok"
          ELSE /\ pc' = "failed"
               /\ UNCHANGED <<kurstillf, retval>>
    /\ ai' = 0 /\ si' = 0
    /\ UNCHANGED <<canvas, ladok_db, pass, resultat, create_queue, update_queue,
                   betygskalor_cache, sent, classified, searches>>
    /\ UNCHANGED NotReport

\* the head of the loop over the assignments: sok_studieresultat for the
\* next moment, and the two queues
SokStudieresultat ==
    /\ pc = "sok"
    /\ NextAssignment(ai) # 0
    /\ \E up \in BOOLEAN :
          /\ searches' = Append(searches,
                 [pass |-> pass,
                  moment |-> Unwrap(canvas.assignments[NextAssignment(ai)]
                                        .integration_id),
                  answer |-> IF up THEN Some(Sokresultat(ladok_db)) ELSE None,
                  seen |-> Len(classified)])
          /\ IF up
             THEN /\ ai' = NextAssignment(ai)
                  /\ resultat' = Some(Sokresultat(ladok_db))
                  /\ create_queue' = <<>>
                  /\ update_queue' = <<>>
                  /\ si' = 0
                  /\ pc' = "classify"
             ELSE /\ pc' = "failed"
                  /\ UNCHANGED <<ai, si, resultat, create_queue, update_queue>>
    /\ UNCHANGED <<canvas, ladok_db, pass, kurstillf, retval, betygskalor_cache,
                   sent, classified>>
    /\ UNCHANGED NotReport

\* the match on the classification, an error emptying the queues
report_change_error_resets(q, canvas_user, r) ==
    IF ~r.ok
    THEN [create_queue |-> <<>>, update_queue |-> <<>>,
          retval |-> add(q.retval, canvas_user, <<"Error", r.err>>)]
    ELSE IF r.val.kind = "Update"
    THEN [q EXCEPT !.update_queue = Append(q.update_queue, r.val.data),
                   !.retval = add(q.retval, canvas_user, <<"Updated", r.val.grade>>)]
    ELSE IF r.val.kind = "Create"
    THEN [q EXCEPT !.create_queue = Append(q.create_queue, r.val.data),
                   !.retval = add(q.retval, canvas_user, <<"Created", r.val.grade>>)]
    ELSE IF r.val.kind = "NoChange"
    THEN [q EXCEPT !.retval = add(q.retval, canvas_user, <<"No change", r.val.grade>>)]
    ELSE [q EXCEPT !.retval = add(q.retval, canvas_user, <<"No grade">>)]

\* the match on the classification of one submission
report_change(q, canvas_user, r) ==
    IF ~r.ok
    THEN [q EXCEPT !.retval = add(q.retval, canvas_user, <<"Error", r.err>>)]
    ELSE IF r.val.kind = "Update"
    THEN [q EXCEPT !.update_queue = Append(q.update_queue, r.val.data),
                   !.retval = add(q.retval, canvas_user, <<"Updated", r.val.grade>>)]
    ELSE IF r.val.kind = "Create"
    THEN [q EXCEPT !.create_queue = Append(q.create_queue, r.val.data),
                   !.retval = add(q.retval, canvas_user, <<"Created", r.val.grade>>)]
    ELSE IF r.val.kind = "NoChange"
    THEN [q EXCEPT !.retval = add(q.retval, canvas_user, <<"No change", r.val.grade>>)]
    ELSE [q EXCEPT !.retval = add(q.retval, canvas_user, <<"No grade">>)]

\* get_user_uid and then prepare_ladok_change
classify(cache, canvas_user, res, moment, submission) ==
    IF canvas.uid_of[canvas_user].ok
    THEN prepare_ladok_change(cache, canvas.uid_of[canvas_user].val, res, moment,
                              submission, Responses(TRUE))
    ELSE ResultOf(cache, <<>>, canvas.uid_of[canvas_user])

\* one turn of the loop over the submissions of the assignment
Classify ==
    /\ pc = "classify"
    /\ NextSubmission(ai, si) # 0
    /\ LET j == NextSubmission(ai, si)
           submission == canvas.submissions[j]
       IN  /\ si' = j
           /\ IF IsSome(submission.user_id)
              THEN LET canvas_user == Unwrap(submission.user_id)
                       r == classify(betygskalor_cache, canvas_user, Unwrap(resultat),
                                     moment_id, submission)
                       q == report_change([create_queue |-> create_queue,
                                           update_queue |-> update_queue,
                                           retval |-> retval],
                                          canvas_user, r.res)
                   IN  /\ betygskalor_cache' = r.cache
                       /\ create_queue' = q.create_queue
                       /\ update_queue' = q.update_queue
                       /\ retval' = q.retval
                       /\ classified' = Append(classified,
                              [pass |-> pass, moment |-> moment_id, user |-> canvas_user,
                               at |-> j, res |-> r.res, lookups |-> r.lookups,
                               snapshot |-> Unwrap(resultat),
                               created |-> Len(q.create_queue) - Len(create_queue),
                               updated |-> Len(q.update_queue) - Len(update_queue)])
              ELSE UNCHANGED <<betygskalor_cache, create_queue, update_queue, retval,
                               classified>>
    /\ UNCHANGED <<canvas, ladok_db, pass, pc, kurstillf, ai, resultat, sent,
                   searches>>
    /\ UNCHANGED NotReport

\* The Registry applying one SkapaResultat: a draft for the moment is
\* attached to the result container the payload refers to.
Skapad(db, c) ==
    [i \in 1..Len(db) |->
        IF db[i].Uid = c.StudieresultatUID
        THEN [db[i] EXCEPT !.ResultatPaUtbildningar =
                 Append(@, Rpu(Some(Draft(Some(<<"n", c.StudieresultatUID,
                                                 c.UtbildningsinstansUID>>),
                                          c.Betygsgrad, c.Examinationsdatum,
                                          Some(8), c.UtbildningsinstansUID))))]
        ELSE db[i]]

\* The Registry applying one UppdateraResultat: the draft the payload
\* names takes the grade and the date of the payload.
Uppdaterad(db, c) ==
    [i \in 1..Len(db) |->
        [db[i] EXCEPT !.ResultatPaUtbildningar =
            [k \in 1..Len(@) |->
                IF IsSome(@[k].Arbetsunderlag)
                   /\ Unwrap(@[k].Arbetsunderlag).Uid = c.ResultatUID
                THEN Rpu(Some([Unwrap(@[k].Arbetsunderlag) EXCEPT
                                  !.Betygsgrad = c.Betygsgrad,
                                  !.Examinationsdatum = c.Examinationsdatum,
                                  !.SenasteResultatandring = Some(9)]))
                ELSE @[k]]]]

\* the Registry applying a whole batch, as one unit
RECURSIVE SkapaFlera(_, _)
SkapaFlera(db, data) ==
    IF data = <<>> THEN db ELSE SkapaFlera(Skapad(db, Head(data)), Tail(data))

RECURSIVE UppdateraFlera(_, _)
UppdateraFlera(db, data) ==
    IF data = <<>> THEN db ELSE UppdateraFlera(Uppdaterad(db, Head(data)), Tail(data))

\* a request for every queue, the empty one too
batch_of_any_queue(queue) == Some(queue)

\* the request skapa_studieresultat or uppdatera_studieresultat sends for
\* a queue: none for an empty queue, else one carrying the whole queue
batch_of(queue) == IF queue = <<>> THEN None ELSE Some(queue)

\* the end of the loop over the submissions, and the create batch
SkapaStudieresultat ==
    /\ pc = "classify"
    /\ NextSubmission(ai, si) = 0
    /\ pc' = "update"
    /\ IF IsSome(batch_of(create_queue))
       THEN \E up \in BOOLEAN :
              /\ sent' = Append(sent, [pass |-> pass, call |-> "skapa",
                                       moment |-> moment_id,
                                       Resultat |-> Unwrap(batch_of(create_queue)),
                                       ok |-> up, seen |-> Len(classified)])
              /\ IF up
                 THEN /\ retval' = [retval EXCEPT !.created = Ok(Len(create_queue))]
                      /\ ladok_db' = SkapaFlera(ladok_db, Unwrap(batch_of(create_queue)))
                 ELSE /\ retval' = [retval EXCEPT !.created = Err(<<"skapa", moment_id>>)]
                      /\ UNCHANGED ladok_db
       ELSE UNCHANGED <<sent, retval, ladok_db>>
    /\ UNCHANGED <<canvas, pass, kurstillf, ai, si, resultat, create_queue,
                   update_queue, betygskalor_cache, classified, searches>>
    /\ UNCHANGED NotReport

\* the update batch, and back to the head of the loop
UppdateraStudieresultat ==
    /\ pc = "update"
    /\ pc' = "sok"
    /\ IF IsSome(batch_of(update_queue))
       THEN \E up \in BOOLEAN :
              /\ sent' = Append(sent, [pass |-> pass, call |-> "uppdatera",
                                       moment |-> moment_id,
                                       Resultat |-> Unwrap(batch_of(update_queue)),
                                       ok |-> up, seen |-> Len(classified)])
              /\ IF up
                 THEN /\ retval' = [retval EXCEPT !.updated = Ok(Len(update_queue))]
                      /\ ladok_db' = UppdateraFlera(ladok_db,
                                                     Unwrap(batch_of(update_queue)))
                 ELSE /\ retval' = [retval EXCEPT
                                       !.updated = Err(<<"uppdatera", moment_id>>)]
                      /\ UNCHANGED ladok_db
       ELSE UNCHANGED <<sent, retval, ladok_db>>
    /\ UNCHANGED <<canvas, pass, kurstillf, ai, si, resultat, create_queue,
                   update_queue, betygskalor_cache, classified, searches>>
    /\ UNCHANGED NotReport

\* no assignment is left: Ok(retval)
Return ==
    /\ pc = "sok"
    /\ NextAssignment(ai) = 0
    /\ pc' = "done"
    /\ UNCHANGED <<canvas, ladok_db, pass, kurstillf, ai, si, resultat, create_queue,
                   update_queue, retval, betygskalor_cache, sent, classified, searches>>
    /\ UNCHANGED NotReport

\* export_step_3 once more, after a run whose batches the Registry has all
\* applied: a new Ladok client, and do_report against the same course room
Rerun ==
    /\ pc = "done"
    /\ pass = 1
    /\ \A i \in 1..Len(sent) : sent[i].ok
    /\ pass' = 2
    /\ pc' = "start"
    /\ betygskalor_cache' = EmptyCache
    /\ kurstillf' = None /\ ai' = 0 /\ si' = 0 /\ resultat' = None
    /\ create_queue' = <<>> /\ update_queue' = <<>> /\ retval' = None
    /\ UNCHANGED <<canvas, ladok_db, sent, classified, searches>>
    /\ UNCHANGED NotReport

Next ==
    \/ Start
    \/ SokStudieresultat
    \/ Classify
    \/ SkapaStudieresultat
    \/ UppdateraStudieresultat
    \/ Return
    \/ Rerun

Init == InitReport

Spec == Init /\ [][Next]_vars

-----------------------------------------------------------------------------
(* What the claims about do_report speak of *)

\* the classifications of a run for a moment, in the order they were made
Entries(p, m) ==
    SelectSeq(classified, LAMBDA e : e.pass = p /\ e.moment = m)

IsKind(e, kind) == e.res.ok /\ e.res.val.kind = kind

RECURSIVE PayloadsOf(_, _)
PayloadsOf(entries, kind) ==
    IF entries = <<>> THEN <<>>
    ELSE IF IsKind(Head(entries), kind)
         THEN <<Head(entries).res.val.data>> \o PayloadsOf(Tail(entries), kind)
         ELSE PayloadsOf(Tail(entries), kind)

Moments == {Unwrap(Assignments[i].integration_id) : i \in Participating}
PositionOf(m) == CHOOSE i \in Participating : Assignments[i].integration_id = Some(m)

Requests(p, m, call) ==
    {i \in 1..Len(sent) : sent[i].pass = p /\ sent[i].moment = m /\ sent[i].call = call}

\* the entry of the first run for the same submission
FirstRunEntry(e) ==
    CHOOSE f \in {classified[i] : i \in 1..Len(classified)} :
        f.pass = 1 /\ f.moment = e.moment /\ f.at = e.at

\* C1, as claimed: after a first run whose batches were all applied, the
\* second run classifies every student NoChange and queues nothing.
C1_Original_AllNoChange ==
    \A i \in 1..Len(classified) :
        classified[i].pass = 2 =>
            /\ IsKind(classified[i], "NoChange")
            /\ classified[i].created = 0 /\ classified[i].updated = 0

\* C1, amended: after a first run whose batches were all applied, the second
\* run classifies NoChange every student the first run classified Create,
\* Update or NoChange, repeats the outcome of every student the first run
\* classified NoGrade or Error, puts nothing in a queue and sends no batch.
C1_SecondRunChangesNothing ==
    /\ \A i \in 1..Len(classified) :
          LET e == classified[i] IN
          e.pass = 2 =>
              /\ e.created = 0 /\ e.updated = 0
              /\ IF \/ IsKind(FirstRunEntry(e), "Create")
                    \/ IsKind(FirstRunEntry(e), "Update")
                    \/ IsKind(FirstRunEntry(e), "NoChange")
                 THEN /\ IsKind(e, "NoChange")
                      /\ e.res.val.grade = FirstRunEntry(e).res.val.grade
                 ELSE e.res = FirstRunEntry(e).res
    /\ pass = 2 => create_queue = <<>> /\ update_queue = <<>>
    /\ \A i \in 1..Len(sent) : sent[i].pass = 1

\* a finished second run after a first run that created and updated
C1_Witness ==
    /\ pass = 2 /\ pc = "done"
    /\ \E i, j \in 1..Len(classified) :
          /\ classified[i].pass = 1 /\ IsKind(classified[i], "Create")
          /\ classified[j].pass = 1 /\ IsKind(classified[j], "Update")
    /\ \E i \in 1..Len(classified) :
          classified[i].pass = 2 /\ IsKind(classified[i], "NoChange")

\* C4: a submission without grade is classified NoGrade, puts nothing in
\* a queue and makes no Registry lookup, whatever any other lookup for the
\* student gives.
C4_NoGradeWhateverElse ==
    \A i \in 1..Len(classified) :
        ~IsSome(canvas.submissions[classified[i].at].grade) =>
            /\ IsKind(classified[i], "NoGrade")
            /\ classified[i].created = 0 /\ classified[i].updated = 0
            /\ classified[i].lookups = <<>>

\* the statuses the report holds for a user once the entries are recorded
RECURSIVE StatusesOf(_, _)
StatusesOf(entries, u) ==
    IF entries = <<>> THEN <<>>
    ELSE LET e == Head(entries)
             status == IF ~e.res.ok THEN <<"Error", e.res.err>>
                       ELSE IF e.res.val.kind = "Update" THEN <<"Updated", e.res.val.grade>>
                       ELSE IF e.res.val.kind = "Create" THEN <<"Created", e.res.val.grade>>
                       ELSE IF e.res.val.kind = "NoChange"
                            THEN <<"No change", e.res.val.grade>>
                       ELSE <<"No grade">>
         IN  IF e.user = u THEN <<status>> \o StatusesOf(Tail(entries), u)
             ELSE StatusesOf(Tail(entries), u)

ThisRun == SelectSeq(classified, LAMBDA e : e.pass = pass)

\* the classification of a submission taken alone against the snapshot
Alone(e) ==
    IF canvas.uid_of[e.user].ok
    THEN prepare_ladok_change(Betygskalor, UserUid(e.user), Unwrap(resultat), e.moment,
                              canvas.submissions[e.at], Responses(TRUE)).res
    ELSE canvas.uid_of[e.user]

\* C5: a failed classification records an Error for its student only and
\* queues nothing; every submission of the moment is classified as it
\* would be taken alone, the queues hold exactly the payloads of the Create
\* and Update classifications in order, and after the loop every submission
\* with a user has been classified.
C5_ErrorIsolated ==
    /\ \A i \in 1..Len(classified) :
          ~classified[i].res.ok =>
              classified[i].created = 0 /\ classified[i].updated = 0
    /\ pc \in {"classify", "update"} =>
          /\ \A i \in 1..Len(Entries(pass, moment_id)) :
                Entries(pass, moment_id)[i].res = Alone(Entries(pass, moment_id)[i])
          /\ create_queue = PayloadsOf(Entries(pass, moment_id), "Create")
          /\ update_queue = PayloadsOf(Entries(pass, moment_id), "Update")
    /\ pc \in {"sok", "classify", "update", "done"} =>
          \A u \in Users :
              IF u \in DOMAIN retval.students
              THEN retval.students[u] = StatusesOf(ThisRun, u)
              ELSE StatusesOf(ThisRun, u) = <<>>
    /\ pc = "update" =>
          \A j \in 1..Len(canvas.submissions) :
              (/\ canvas.submissions[j].assignment_id = Some(Assignments[ai].id)
               /\ IsSome(canvas.submissions[j].user_id)) =>
                  \E i \in 1..Len(Entries(pass, moment_id)) :
                      Entries(pass, moment_id)[i].at = j

\* an Error followed by a Create in the same moment
C5_Witness ==
    /\ pc = "update"
    /\ \E i, j \in 1..Len(Entries(pass, moment_id)) :
          /\ i < j
          /\ ~Entries(pass, moment_id)[i].res.ok
          /\ IsKind(Entries(pass, moment_id)[j], "Create")
    /\ Len(create_queue) = 1

\* the batch of the moment has been decided: sent or left out
Flushed(p, m, call) ==
    \/ p < pass
    \/ /\ p = pass /\ ai # 0
       /\ \/ PositionOf(m) < ai
          \/ /\ PositionOf(m) = ai
             /\ \/ pc \in {"sok", "done", "failed"}
                \/ pc = "update" /\ call = "skapa"

BatchRule(p, m, call, kind) ==
    IF Flushed(p, m, call) /\ PayloadsOf(Entries(p, m), kind) # <<>>
    THEN /\ Cardinality(Requests(p, m, call)) = 1
         /\ \A i \in Requests(p, m, call) :
                sent[i].Resultat = PayloadsOf(Entries(p, m), kind)
    ELSE Requests(p, m, call) = {}

\* C6: per moment, an empty create queue sends no create request and a
\* non-empty one sends exactly one, carrying every Create payload of the
\* moment in classification order; the same for the update queue.
C6_OneBatchPerQueue ==
    \A p \in {1, 2}, m \in Moments :
        /\ BatchRule(p, m, "skapa", "Create")
        /\ BatchRule(p, m, "uppdatera", "Update")

\* a create request with two payloads and no update request for the moment
C6_Witness ==
    /\ pc = "sok" /\ ai # 0
    /\ \E i \in Requests(pass, moment_id, "skapa") : Len(sent[i].Resultat) = 2
    /\ Requests(pass, moment_id, "uppdatera") = {}
    /\ update_queue = <<>>

\* C7: the failure of a batch of some moment is in the report do_report
\* returns, whatever moments were processed before or after it.
C7_BatchErrorKept ==
    pc = "done" =>
        \A i \in 1..Len(sent) :
            (sent[i].pass = pass /\ ~sent[i].ok) =>
                IF sent[i].call = "skapa"
                THEN retval.created = Err(<<"skapa", sent[i].moment>>)
                ELSE retval.updated = Err(<<"uppdatera", sent[i].moment>>)

\* the submissions Canvas holds of user u for the assignment of moment m
SubmissionsFor(u, m) ==
    {j \in 1..Len(canvas.submissions) :
        /\ canvas.submissions[j].user_id = Some(u)
        /\ canvas.submissions[j].assignment_id = Some(Assignments[PositionOf(m)].id)}

\* the classifications of run p for user u and moment m
Outcomes(p, u, m) ==
    {i \in 1..Len(classified) :
        /\ classified[i].pass = p
        /\ classified[i].user = u
        /\ classified[i].moment = m}

Kinds == {"Create", "Update", "NoChange", "NoGrade"}

\* C15: when do_report has returned its report, every student has, for every
\* participating moment Canvas holds a submission of theirs for, exactly one
\* classification, which is an Error or one of Create, Update, NoChange and
\* NoGrade; it put one payload in one queue of the moment when it is Create
\* or Update and none otherwise; and the student's line of the report holds
\* one status per such moment.  (Canvas holds one submission per student
\* and assignment, and one assignment per moment.)
C15_OneOutcomePerStudentAndMoment ==
    pc = "done" =>
        \A u \in Users :
            /\ \A m \in Moments :
                  SubmissionsFor(u, m) # {} =>
                      /\ Cardinality(Outcomes(pass, u, m)) = 1
                      /\ \A i \in Outcomes(pass, u, m) :
                            LET e == classified[i]
                            IN  /\ e.res.ok => e.res.val.kind \in Kinds
                                /\ e.created + e.updated
                                       = IF IsKind(e, "Create") \/ IsKind(e, "Update")
                                         THEN 1 ELSE 0
                                /\ e.created \in {0, 1} /\ e.updated \in {0, 1}
            /\ LET n == Cardinality({m \in Moments : SubmissionsFor(u, m) # {}})
               IN  IF n = 0 THEN u \notin DOMAIN retval.students
                   ELSE /\ u \in DOMAIN retval.students
                        /\ Len(retval.students[u]) = n

\* a finished first run in which a user was Created for one moment and got
\* No grade for the other, and another user got an Error
C15_Witness ==
    /\ pc = "done" /\ pass = 1
    /\ \E u, v \in Users :
          /\ u # v
          /\ Len(retval.students[u]) = 2
          /\ retval.students[u][1][1] = "Created"
          /\ retval.students[u][2] = <<"No grade">>
          /\ retval.students[v][1][1] = "Error"

\* the calls of sok_studieresultat of run p for moment m
Searches(p, m) ==
    {i \in 1..Len(searches) : searches[i].pass = p /\ searches[i].moment = m}

\* the batches of run p for moment m
Batches(p, m) ==
    {i \in 1..Len(sent) : sent[i].pass = p /\ sent[i].moment = m}

\* the classifications of run p for moment m
Classifications(p, m) ==
    {i \in 1..Len(classified) : classified[i].pass = p /\ classified[i].moment = m}

\* C17: in a run, sok_studieresultat is called at most once for a moment,
\* and once for every moment when the run returns its report; the call comes
\* before every classification of the moment, and every classification of
\* the moment is computed against the result set that call returned; a
\* batch of the moment is sent after every submission of the moment that
\* has a user has been classified, and no classification of the moment
\* comes after it.
C17_OneSnapshotPerMoment ==
    \A p \in {1, 2}, m \in Moments :
        /\ Cardinality(Searches(p, m)) <= 1
        /\ (p = pass /\ pc = "done") => Cardinality(Searches(p, m)) = 1
        /\ \A i \in Classifications(p, m) :
              \E k \in Searches(p, m) :
                  /\ searches[k].seen < i
                  /\ searches[k].answer = Some(classified[i].snapshot)
        /\ \A b \in Batches(p, m) :
              /\ \A i \in Classifications(p, m) : i <= sent[b].seen
              /\ \A j \in 1..Len(canvas.submissions) :
                    (/\ canvas.submissions[j].assignment_id
                            = Some(Assignments[PositionOf(m)].id)
                     /\ IsSome(canvas.submissions[j].user_id)) =>
                        \E i \in Classifications(p, m) : classified[i].at = j

\* a finished first run: the result set searched for M2 is not the one
\* searched for M1, whose batch the Registry applied in between, and both
\* moments had classifications and a batch
C17_Witness ==
    /\ pc = "done" /\ pass = 1
    /\ \E k \in Searches(1, "M1"), l \in Searches(1, "M2") :
          searches[k].answer # searches[l].answer
    /\ Batches(1, "M1") # {} /\ Batches(1, "M2") # {}
    /\ Cardinality(Classifications(1, "M2")) = NumUsers

-----------------------------------------------------------------------------
(* SpecGrade: one Ladok session, get_grade called up to MaxCalls times.    *)
(* The Registry may fail a fetch, and may have revised a scale.            *)

Revised(skala) ==
    [skala EXCEPT !.Betygsgrad = Append(@, Grade(9, <<"Z">>))]

FetchAnswers(id) ==
    {Err("fetch failed"), Ok(Betygskalor[id]), Ok(Revised(Betygskalor[id]))}

InitGrade ==
    /\ betygskalor_cache = EmptyCache
    /\ net = <<>> /\ ncalls = 0 /\ last_call = None
    /\ IdlePrepare /\ IdleReport /\ IdleDecode /\ IdleSubmissions /\ IdleSok

GetGrade ==
    /\ ncalls < MaxCalls
    /\ \E id \in ScaleIds, grade \in {<<"A">>, <<"Z">>} :
       \E answer \in FetchAnswers(id) :
          LET r == get_grade(betygskalor_cache, id, grade, answer)
          IN  /\ betygskalor_cache' = r.cache
              /\ net' = IF r.fetched THEN Append(net, [id |-> id, answer |-> answer])
                        ELSE net
              /\ last_call' = Some([id |-> id, grade |-> grade,
                                    cached |-> id \in DOMAIN betygskalor_cache,
                                    fetched |-> r.fetched, res |-> r.res])
    /\ ncalls' = ncalls + 1
    /\ UNCHANGED <<p_in, p_out, canvas, ladok_db, pass, pc, kurstillf, ai, si,
                   resultat, create_queue, update_queue, retval, sent, classified, searches,
                   d_in, d_out, g_out>>
    /\ UNCHANGED <<submissionsVars, sokVars>>

NextGrade == GetGrade

SpecGrade == InitGrade /\ [][NextGrade]_vars

\* the successful fetches of a scale id, as positions of the fetch log
Fetches(id) == {i \in 1..Len(net) : net[i].id = id /\ net[i].answer.ok}

\* C8: a call for a cached scale id fetches nothing; a scale id is in the
\* cache exactly when a fetch of it has succeeded, and the cache holds what
\* that fetch returned; each scale id is successfully fetched at most once.
C8_ScaleFetchedOnce ==
    /\ IsSome(last_call) =>
          (Unwrap(last_call).cached => ~Unwrap(last_call).fetched)
    /\ \A id \in ScaleIds :
          /\ Cardinality(Fetches(id)) <= 1
          /\ id \in DOMAIN betygskalor_cache <=> Fetches(id) # {}
          /\ \A i \in Fetches(id) : betygskalor_cache[id] = net[i].answer.val

\* a call served from the cache after the scale has been revised
C8_Witness ==
    /\ IsSome(last_call)
    /\ Unwrap(last_call).cached /\ Unwrap(last_call).res.ok
    /\ ncalls >= 3
    /\ Len(net) = 2 /\ ~net[1].answer.ok /\ net[2].answer.ok
    /\ net[1].id = net[2].id

-----------------------------------------------------------------------------
(* SpecDecode: one JSON value given to the deserializer of BetygsskalaID   *)
(* and to the deserializer of BetygsgradID                                 *)

JsonNumber(n) == [shape |-> IF n >= 0 THEN "u64" ELSE "i64", num |-> n]
JsonString(str) == [shape |-> "str", str |-> str]
JsonBool(b) == [shape |-> "bool", bool |-> b]
JsonNull == [shape |-> "null"]

Chars == {Digits[i] : i \in 1..Len(Digits)} \cup {"a", "+", "-"}

JsonInputs ==
    {JsonNumber(n) : n \in (0 - MaxNum)..MaxNum}
        \cup {JsonString(str) : str \in SeqsUpTo(Chars, MaxLen)}
        \cup {JsonBool(b) : b \in BOOLEAN}
        \cup {JsonNull}

InitDecode ==
    /\ d_in \in {Some(j) : j \in JsonInputs}
    /\ d_out = None
    /\ g_out = None
    /\ betygskalor_cache = EmptyCache
    /\ IdlePrepare /\ IdleReport /\ IdleGrade /\ IdleSubmissions /\ IdleSok

Decode ==
    /\ d_out = None
    /\ d_out' = Some(deserialize(Unwrap(d_in)))
    /\ UNCHANGED <<p_in, p_out, canvas, ladok_db, pass, pc, kurstillf, ai, si,
                   resultat, create_queue, update_queue, retval, betygskalor_cache,
                   sent, classified, searches, net, ncalls, last_call, d_in, g_out>>
    /\ UNCHANGED <<submissionsVars, sokVars>>

\* the same wire value given to the deserializer of BetygsgradID
DecodeGrad ==
    /\ g_out = None
    /\ g_out' = Some(BetygsgradID_deserialize(Unwrap(d_in)))
    /\ UNCHANGED <<p_in, p_out, canvas, ladok_db, pass, pc, kurstillf, ai, si,
                   resultat, create_queue, update_queue, retval, betygskalor_cache,
                   sent, classified, searches, net, ncalls, last_call, d_in, d_out>>
    /\ UNCHANGED <<submissionsVars, sokVars>>

NextDecode == Decode \/ DecodeGrad

SpecDecode == InitDecode /\ [][NextDecode]_vars

\* the decimal numeral of a number
RECURSIVE ToDecimal(_)
ToDecimal(n) ==
    IF n < 10 THEN <<Digits[n + 1]>>
    ELSE Append(ToDecimal(n \div 10), Digits[(n % 10) + 1])

HasLetter(str) == \E i \in 1..Len(str) : ~IsDigit(str[i]) /\ str[i] \notin {"+", "-"}

\* C10: a number n > 0 and the string of its decimal numeral both decode to
\* the identifier n; the number 0, the string "0", a string holding a
\* letter and a boolean fail to decode.
C10_FlexibleIdDecode ==
    IsSome(d_out) =>
        LET in == Unwrap(d_in)
            out == Unwrap(d_out)
        IN  /\ (in.shape = "u64" /\ in.num > 0) =>
                   /\ out = Ok(in.num)
                   /\ deserialize(JsonString(ToDecimal(in.num))) = out
            /\ \A n \in 1..MaxNum :
                   (in.shape = "str" /\ in.str = ToDecimal(n)) => out = Ok(n)
            /\ (in.shape = "u64" /\ in.num = 0) => ~out.ok
            /\ (in.shape = "str" /\ in.str = <<"0">>) => ~out.ok
            /\ (in.shape = "str" /\ HasLetter(in.str)) => ~out.ok
            /\ in.shape = "bool" => ~out.ok

\* the string "12" decoded to 12
C10_Witness ==
    /\ IsSome(d_out)
    /\ Unwrap(d_in) = JsonString(<<"1", "2">>)
    /\ Unwrap(d_out) = Ok(12)

\* C11: a BetygsgradID arriving as the quoted decimal numeral of n > 0
\* decodes to the identifier n, as the bare number n does and as a
\* BetygsskalaID arriving either way does.
C11_GradeIdDecodesFlexibly ==
    (IsSome(g_out) /\ Unwrap(d_in).shape = "str") =>
        \A n \in 1..MaxNum :
            Unwrap(d_in).str = ToDecimal(n) =>
                /\ Unwrap(g_out) = BetygsgradID_deserialize(JsonNumber(n))
                /\ Unwrap(g_out) = deserialize(Unwrap(d_in))

-----------------------------------------------------------------------------
(* canvas/mod.rs: get_next_url.  The link header is a string, a sequence   *)
(* of characters.                                                          *)

\* str::starts_with and str::ends_with
starts_with(s, prefix) ==
    Len(prefix) <= Len(s) /\ SubSeq(s, 1, Len(prefix)) = prefix

ends_with(s, suffix) ==
    Len(suffix) <= Len(s) /\ SubSeq(s, Len(s) - Len(suffix) + 1, Len(s)) = suffix

\* str::split on one character: the pieces between the separators, an
\* empty piece included
RECURSIVE split(_, _)
split(s, sep) ==
    LET i == FirstIndex(s, LAMBDA c : c = sep)
    IN  IF i = 0 THEN <<s>>
        ELSE <<SubSeq(s, 1, i - 1)>> \o split(SubSeq(s, i + 1, Len(s)), sep)

\* const END: >; rel="next"
END == <<">", ";", " ", "r", "e", "l", "=", "\"", "n", "e", "x", "t", "\"">>

\* get_next_url taking the first bracketed entry whatever its relation
get_next_url_of_first_entry(links) ==
    LET parts == split(links, ",")
        i == FirstIndex(parts, LAMBDA link : starts_with(link, <<"<">>))
        j == IF i = 0 THEN 0 ELSE FirstIndex(parts[i], LAMBDA c : c = ">")
    IN  IF i = 0 \/ j = 0 THEN None ELSE Some(SubSeq(parts[i], 2, j - 1))

\* get_next_url: link[1..link.len() - END.len()] of the first piece that
\* starts with < and ends with END
get_next_url(links) ==
    LET parts == split(links, ",")
        i == FirstIndex(parts, LAMBDA link : starts_with(link, <<"<">>)
                                              /\ ends_with(link, END))
    IN  IF i = 0 THEN None
        ELSE Some(SubSeq(parts[i], 2, Len(parts[i]) - Len(END)))

-----------------------------------------------------------------------------
(* Canvas serving the submissions of a course room as a chain of pages.    *)
(* A page holds its items, the entries of its link header (None: the       *)
(* response has no link header), its HTTP status, and whether its body     *)
(* decodes as a list of submissions.                                       *)

\* the url of page i
Url(i) == <<"p", Digits[i + 1]>>

RelCurrent == <<"c", "u", "r", "r", "e", "n", "t">>
RelNext == <<"n", "e", "x", "t">>
RelPrev == <<"p", "r", "e", "v">>
RelFirst == <<"f", "i", "r", "s", "t">>
RelLast == <<"l", "a", "s", "t">>
RelXnext == <<"x", "n", "e", "x", "t">>

Link(url, rel) == [url |-> url, rel |-> rel]

\* one entry of the header as Canvas writes it: <url>; rel="name"
Entry(e) ==
    <<"<">> \o e.url \o <<">", ";", " ", "r", "e", "l", "=", "\"">> \o e.rel \o <<"\"">>

\* the header: the entries joined by commas
RECURSIVE Render(_)
Render(entries) ==
    IF Len(entries) = 1 THEN Entry(entries[1])
    ELSE Entry(Head(entries)) \o <<",">> \o Render(Tail(entries))

InsertAt(seq, k, e) ==
    IF k = 0 THEN Append(seq, e)
    ELSE SubSeq(seq, 1, k - 1) \o <<e>> \o SubSeq(seq, k, Len(seq))

\* where the next entry stands in a header (0: last) and whether the header
\* also has an entry of another relation whose name ends in next
Layouts == [pos : {0, 1, 2}, decoy : BOOLEAN]

\* the entries of the header of page i of n
LinkEntries(i, n, layout) ==
    LET base == <<Link(Url(i), RelCurrent)>>
                    \o (IF i > 1 THEN <<Link(Url(i - 1), RelPrev)>> ELSE <<>>)
                    \o (IF layout.decoy THEN <<Link(Url(1), RelXnext)>> ELSE <<>>)
                    \o <<Link(Url(1), RelFirst), Link(Url(n), RelLast)>>
    IN  IF i < n THEN InsertAt(base, layout.pos, Link(Url(i + 1), RelNext))
        ELSE base

\* the submissions of one page; a submission is its number, and the same
\* submission may be served twice
PageContents == {<<>>, <<1>>, <<1, 2>>, <<2, 1>>}

\* what can be wrong with one page: its status, or its body
Faults == {"status", "body"}

CanvasPage(i, n, items, layout, bare, fault) ==
    [items |-> items,
     entries |-> IF i = n /\ bare THEN None ELSE Some(LinkEntries(i, n, layout)),
     status |-> IF fault = Some([page |-> i, kind |-> "status"]) THEN 500 ELSE 200,
     decodes |-> fault # Some([page |-> i, kind |-> "body"])]

\* the response of Canvas to GET url
Serve(listing, url) ==
    LET i == FirstIndex([k \in 1..Len(listing) |-> k], LAMBDA k : Url(k) = url)
    IN  IF i = 0 THEN [status |-> 404, link |-> None, body |-> None]
        ELSE [status |-> listing[i].status,
              link |-> IF IsSome(listing[i].entries)
                       THEN Some(Render(Unwrap(listing[i].entries)))
                       ELSE None,
              body |-> IF listing[i].status = 200 /\ listing[i].decodes
                       THEN Some(listing[i].items) ELSE None]

-----------------------------------------------------------------------------
(* canvas/mod.rs: Canvas::get_submissions, one step per turn of its loop   *)

InitSubmissions ==
    /\ \E n \in 1..MaxPages :
         \E contents \in [1..n -> PageContents], layout \in Layouts,
            bare \in BOOLEAN,
            fault \in {None} \cup {Some([page |-> i, kind |-> k]) :
                                      i \in 1..n, k \in Faults} :
            pages = [i \in 1..n |->
                        CanvasPage(i, n, contents[i], layout, bare, fault)]
    /\ next_url = Some(Url(1))
    /\ result = <<>>
    /\ requests = <<>>
    /\ s_ret = None

\* the ? operator giving what was accumulated instead of the error
try_returning_partial(acc, e) == Ok(acc)

\* the ? operator on an error: the function returns Err(e), its locals are
\* dropped
try(acc, e) == Err(e)

\* Vec::append keeping only the page just read
append_replacing(acc, items) == items

\* Vec::append
append(acc, items) == acc \o items

\* one turn of the while let loop: the request, the link header, the body
Fetch ==
    /\ s_ret = None
    /\ IsSome(next_url)
    /\ LET url == Unwrap(next_url)
           resp == Serve(pages, url)
           next == IF IsSome(resp.link) THEN get_next_url(Unwrap(resp.link))
                   ELSE None
       IN  /\ requests' = Append(requests,
                                 [url |-> url, status |-> resp.status,
                                  link |-> resp.link, next |-> next,
                                  body |-> resp.body, before |-> result])
           /\ IF resp.status # 200
              THEN /\ s_ret' = Some(try(result, <<"status", resp.status>>))
                   /\ next_url' = None
                   /\ result' = <<>>
              ELSE IF ~IsSome(resp.body)
              THEN /\ s_ret' = Some(try(result, <<"json">>))
                   /\ next_url' = None
                   /\ result' = <<>>
              ELSE /\ next_url' = next
                   /\ result' = append(result, Unwrap(resp.body))
                   /\ s_ret' = s_ret
    /\ UNCHANGED pages
    /\ UNCHANGED <<notFetchVars, sokVars>>

\* next_url is None after the loop ran, which it does at least once:
\* Ok(result)
ReturnSubmissions ==
    /\ s_ret = None
    /\ requests # <<>>
    /\ next_url = None
    /\ s_ret' = Some(Ok(result))
    /\ UNCHANGED <<pages, next_url, result, requests>>
    /\ UNCHANGED <<notFetchVars, sokVars>>

-----------------------------------------------------------------------------
(* ladok/mod.rs: Ladok::sok_studieresultat, one step per request.  The     *)
(* Registry answers a request with a failure or with any page and any      *)
(* total.  data.Page is a u32, here PageWidth bits wide: data.Page += 1 on *)
(* the largest value panics in a build with overflow checks and wraps to 0 *)
(* in a build without.                                                     *)

MaxPage == 2 ^ PageWidth - 1

\* the results of one page; a result is its number
SokPages == {<<>>, <<1>>, <<1, 2>>}

\* what the Registry may answer: a non-success status, or a page of results
\* with a total
SokAnswers ==
    {Err(<<"status", 500>>)}
        \cup {Ok([Resultat |-> r, TotaltAntalPoster |-> t]) :
                 r \in SokPages, t \in 0..MaxTotal}

\* let url, let mut data
NewSokVarden(kurstillfalle, moment) ==
    [url |-> <<"utbildningsinstans", moment, "sok">>,
     data |-> [KurstillfallenUID |-> <<kurstillfalle>>,
               Page |-> 1,
               Filtrering |-> <<"OBEHANDLADE", "UTKAST">>,
               UtbildningsinstansUID |-> Some(moment),
               OrderBy |-> <<"EFTERNAMN_ASC", "FORNAMN_ASC", "PERSONNUMMER_ASC">>,
               Limit |-> 100]]

InitSok ==
    /\ sok_data \in {Some(NewSokVarden("K1", m)) : m \in {"M1", "M2"}}
    /\ sok_resultat = None
    /\ sok_pc = "start"
    /\ sok_req = None
    /\ sok_answer = None
    /\ sok_ret = None

\* self.client.put(&url).json(&data)
put(locals) == [url |-> locals.url, body |-> locals.data]

\* the request of a further page sent with the page number unchanged
next_page_same(locals) == locals

\* data.Page += 1
next_page(locals) ==
    [locals EXCEPT !.data.Page = (locals.data.Page + 1) % (MaxPage + 1)]

\* the condition of the while loop
more_wanted(acc) == Len(acc.Resultat) < acc.TotaltAntalPoster

\* Vec::extend
extend(acc, r2) == [acc EXCEPT !.Resultat = acc.Resultat \o r2.Resultat]

\* the first request, with data as it was built
SokFirst ==
    /\ sok_pc = "start"
    /\ \E answer \in SokAnswers :
          /\ sok_req' = Some(put(Unwrap(sok_data)))
          /\ sok_answer' = Some(answer)
          /\ IF answer.ok
             THEN /\ sok_resultat' = Some(answer.val)
                  /\ sok_pc' = "loop"
                  /\ sok_ret' = sok_ret
             ELSE /\ sok_resultat' = None
                  /\ sok_pc' = "returned"
                  /\ sok_ret' = Some(try(<<>>, answer.err))
    /\ UNCHANGED sok_data
    /\ UNCHANGED <<notFetchVars, submissionsVars>>

\* one turn of the while loop
SokNext ==
    /\ sok_pc = "loop"
    /\ more_wanted(Unwrap(sok_resultat))
    /\ \/ /\ Unwrap(sok_data).data.Page = MaxPage
          /\ sok_pc' = "panicked"
          /\ UNCHANGED <<sok_data, sok_resultat, sok_req, sok_answer, sok_ret>>
       \/ \E answer \in SokAnswers :
             LET locals == next_page(Unwrap(sok_data))
             IN  /\ sok_data' = Some(locals)
                 /\ sok_req' = Some(put(locals))
                 /\ sok_answer' = Some(answer)
                 /\ IF answer.ok
                    THEN /\ sok_resultat' = Some(extend(Unwrap(sok_resultat), answer.val))
                         /\ UNCHANGED <<sok_pc, sok_ret>>
                    ELSE /\ sok_resultat' = None
                         /\ sok_pc' = "returned"
                         /\ sok_ret' = Some(try(Unwrap(sok_resultat), answer.err))
    /\ UNCHANGED <<notFetchVars, submissionsVars>>

\* the loop is over: Ok(resultat)
SokReturn ==
    /\ sok_pc = "loop"
    /\ ~more_wanted(Unwrap(sok_resultat))
    /\ sok_ret' = Some(Ok(Unwrap(sok_resultat)))
    /\ sok_pc' = "returned"
    /\ UNCHANGED <<sok_data, sok_resultat, sok_req, sok_answer>>
    /\ UNCHANGED <<notFetchVars, submissionsVars>>

-----------------------------------------------------------------------------
(* SpecFetch: one call of Canvas::get_submissions or one call of          *)
(* Ladok::sok_studieresultat.  SpecSokLive: one call of sok_studieresultat *)
(* that goes on as long as it can, every request being answered.           *)

IdleOthers ==
    /\ IdlePrepare /\ IdleReport /\ IdleGrade /\ IdleDecode
    /\ betygskalor_cache = EmptyCache

InitFetch ==
    /\ IdleOthers
    /\ \/ InitSubmissions /\ IdleSok
       \/ InitSok /\ IdleSubmissions

NextSok ==
    \/ SokFirst
    \/ SokNext
    \/ SokReturn

NextFetch ==
    \/ Fetch
    \/ ReturnSubmissions
    \/ SokFirst
    \/ SokNext
    \/ SokReturn

SpecFetch == InitFetch /\ [][NextFetch]_vars

InitSokLive == IdleOthers /\ InitSok /\ IdleSubmissions

SpecSokLive == InitSokLive /\ [][NextSok]_vars /\ WF_vars(NextSok)

-----------------------------------------------------------------------------
(* Claims about the two fetchers *)

\* the page a request was for, 0 when Canvas has no such page
PageAt(url) ==
    FirstIndex([k \in 1..Len(pages) |-> k], LAMBDA k : Url(k) = url)

\* the url of the entry whose relation is next
NextOf(entries) ==
    LET i == FirstIndex(entries, LAMBDA e : e.rel = RelNext)
    IN  IF i = 0 THEN None ELSE Some(entries[i].url)

\* the items of the pages, page after page
RECURSIVE Flatten(_)
Flatten(listing) ==
    IF listing = <<>> THEN <<>>
    ELSE Head(listing).items \o Flatten(Tail(listing))

AllPagesFine == \A i \in 1..Len(pages) : pages[i].status = 200 /\ pages[i].decodes

\* C12: when every page of the listing is served with success, get_submissions
\* returns the items of all pages, page after page and in the order inside
\* each page, nothing dropped and a repeated item kept; it makes one request
\* per page, page 1 first and then the page each next link names, and no
\* request after the first response without a next link.
C12_AllPagesInArrivalOrder ==
    /\ Len(requests) <= Len(pages)
    /\ \A k \in 1..Len(requests) :
          requests[k].next = None => k = Len(requests)
    /\ (IsSome(s_ret) /\ AllPagesFine) =>
          /\ Unwrap(s_ret) = Ok(Flatten(pages))
          /\ Len(requests) = Len(pages)
          /\ \A k \in 1..Len(requests) : requests[k].url = Url(k)

\* three pages, the second repeating the items of the first in another order
C12_Witness ==
    /\ Len(pages) = 3
    /\ pages[1].items = <<1, 2>> /\ pages[2].items = <<2, 1>> /\ pages[3].items = <<1>>
    /\ s_ret = Some(Ok(<<1, 2, 2, 1, 1>>))
    /\ Len(requests) = 3

\* C13: for a header made of entries <url>; rel="name" joined by commas,
\* get_next_url gives the url of the entry whose relation is next, wherever
\* it stands and whatever other relations there are, and None when no entry
\* has the relation next.
C13_NextUrlIsRelNext ==
    \A k \in 1..Len(requests) :
        LET i == PageAt(requests[k].url)
        IN  (i # 0 /\ IsSome(pages[i].entries)) =>
                /\ requests[k].link = Some(Render(Unwrap(pages[i].entries)))
                /\ requests[k].next = NextOf(Unwrap(pages[i].entries))

\* the next entry last in the header of page 1, after an entry with the
\* relation xnext, and a header with current, prev, first and last only on
\* page 2
C13_Witness ==
    /\ Len(pages) = 2 /\ Len(requests) = 2
    /\ IsSome(pages[1].entries) /\ IsSome(pages[2].entries)
    /\ LET e == Unwrap(pages[1].entries)
       IN  /\ e[Len(e)].rel = RelNext
           /\ \E j \in 1..Len(e) : e[j].rel = RelXnext
    /\ requests[1].next = Some(Url(2))
    /\ requests[2].next = None
    /\ requests[2].link = Some(Render(Unwrap(pages[2].entries)))

\* C14: once a request of get_submissions or of sok_studieresultat got a
\* non-success status, the call has returned an error that holds the status
\* and none of the items of the pages read before.
C14_FailureReturnsNothing ==
    /\ \A k \in 1..Len(requests) :
          requests[k].status # 200 =>
              /\ k = Len(requests)
              /\ s_ret = Some(Err(<<"status", requests[k].status>>))
    /\ (IsSome(sok_answer) /\ ~Unwrap(sok_answer).ok) =>
          /\ sok_pc = "returned"
          /\ sok_ret = Some(Err(Unwrap(sok_answer).err))

\* the third page fails after three items were read from the first two
C14_Witness ==
    /\ Len(requests) = 3
    /\ requests[3].status = 500
    /\ requests[3].before = <<1, 2, 1>>
    /\ IsSome(s_ret) /\ ~Unwrap(s_ret).ok

\* the parameters of a request other than its page number
SameButPage(a, b) ==
    /\ a.url = b.url
    /\ [a.body EXCEPT !.Page = 0] = [b.body EXCEPT !.Page = 0]

Accumulated == Len(Unwrap(sok_resultat).Resultat)
Total == Unwrap(sok_resultat).TotaltAntalPoster

\* C18: the first request of sok_studieresultat has Page 1; in the loop a
\* step is a further request exactly when fewer results are accumulated than
\* the total (but for the overflow of the page number in a build that checks
\* it); a further request has the Page of the one before plus 1, in u32
\* arithmetic, and the url, KurstillfallenUID, UtbildningsinstansUID,
\* Filtrering, Limit and OrderBy of the one before.
C18_BodyCountPagination ==
    [][/\ (sok_req = None /\ sok_req' # None) =>
              Unwrap(sok_req').body.Page = 1
       /\ (sok_req # None /\ sok_req' # sok_req) =>
              /\ sok_pc = "loop"
              /\ Accumulated < Total
              /\ Unwrap(sok_req').body.Page
                     = (Unwrap(sok_req).body.Page + 1) % (2 ^ PageWidth)
              /\ SameButPage(Unwrap(sok_req'), Unwrap(sok_req))
       /\ (sok_pc = "loop" /\ Accumulated < Total) =>
              (sok_req' # sok_req \/ sok_pc' = "panicked")
       /\ (sok_pc = "loop" /\ ~(Accumulated < Total)) =>
              sok_req' = sok_req
      ]_vars

\* three requests, of one result each, for a total of three
C18_Witness ==
    /\ sok_pc = "returned"
    /\ IsSome(sok_req) /\ Unwrap(sok_req).body.Page = 3
    /\ IsSome(sok_ret) /\ Unwrap(sok_ret).ok
    /\ Unwrap(sok_ret).val.Resultat = <<1, 1, 1>>
    /\ Unwrap(sok_ret).val.TotaltAntalPoster = 3

\* C19: every call of sok_studieresultat whose requests are all answered
\* comes to an end.
C19_SokTerminates == <>(sok_pc \in {"returned", "panicked"})

====
